---- MODULE Spec2Model ----
(***************************************************************************)
(* Phase-corrected power measurement and phase calibration of             *)
(* rpi_power_monitor/power_monitor.py.                                     *)
(*                                                                         *)
(* Number representation.  Python floats are modelled by exact fixed-point *)
(* or rational integers:                                                   *)
(*   - a phase coefficient c is the integer c * CScale;                    *)
(*   - a reconstructed voltage sample w is the integer w * CScale;         *)
(*   - a mean-based term t over N samples is the record                    *)
(*     [num |-> t * N * N, den |-> N * N];                                 *)
(*   - a power factor is [num |-> n, den2 |-> d], the real n / sqrt(d).    *)
(* The positive scaling factors (vref, accuracy coefficients) multiply     *)
(* numerator and denominator of the power factor alike and are left out.   *)
(***************************************************************************)
EXTENDS Integers, Sequences, FiniteSets, TLC

VARIABLES
    samples,              \* the batch: ct1..ct6 and voltage -> list of ADC codes
    ct_phase_correction,  \* self.ct_phase_correction: channel -> coefficient
    ct_selection,         \* the channel handed to rebuild_wave / check_phasecal
    rebuilt_wave,         \* what rebuild_wave returned (or raised)
    check_results,        \* what check_phasecal returned (or raised)
    rebuilt_waves,        \* what rebuild_waves returned (or raised)
    results,              \* what calculate_power returned (or raised)
    pc,                   \* position of the caller
    phase,                \* locals of the phase-mode driver: pf, initial_pf, avg_phasecal
    cal,                  \* locals of find_phasecal (the calibration state)
    log,                  \* what the operator has been told, in order
    env,                  \* the load and sensor behind the sample source
    board,                \* locals of get_board_voltage: samples, board_voltage
    db,                   \* locals of the default mode: x, connection_established
    loop,                 \* locals of run_main: i and the lists of the window
    sink                  \* what write_to_influx has been handed, in order

vars == <<samples, ct_phase_correction, ct_selection, rebuilt_wave,
          check_results, rebuilt_waves, results, pc, phase, cal, log, env,
          board, db, loop, sink>>

calcVars == <<samples, rebuilt_wave, check_results, rebuilt_waves, results>>

phaseVars == <<phase, cal, log, env>>

mainVars == <<board, db, loop, sink>>

-----------------------------------------------------------------------------
(* Bounds of the enumerated inputs *)

MaxLen == 3
MaxCode == 1

(* One unit of a coefficient: c = 1.0 is CScale *)
CScale == 10000

Channels == {"ct1", "ct2", "ct3", "ct4", "ct5", "ct6"}

Codes == 0..MaxCode

SeqsUpTo(S, n) == UNION {[1..k -> S] : k \in 0..n}

(* The regression batch of the scenario: I = V = [10, 20, 30, 40] *)
AnchorSeq == <<10, 20, 30, 40>>

InputSeqs == SeqsUpTo(Codes, MaxLen) \cup {AnchorSeq}

(* Coefficients 0.5, 1.0 and 1.5 *)
PhaseCals == {CScale \div 2, CScale, CScale + CScale \div 2}

None == [status |-> "none"]

-----------------------------------------------------------------------------
(* rebuild_wave / rebuild_waves *)

(* floor(c * y / CScale) for a coefficient c and a scaled value y, computed *)
(* in two parts so that no intermediate product leaves 32 bits              *)
MulDiv(c, y) == c * (y \div CScale) + (c * (y % CScale)) \div CScale

(* previous_point + PHASECAL * (current_point - previous_point), all points times CScale *)
NewPoint(previous_point, current_point, PHASECAL) ==
    previous_point + MulDiv(PHASECAL, current_point - previous_point)

(* Variant: the loop carries the corrected point *)
NextPreviousCorrected(current_point, new_point) == new_point

(* What the loop carries to the next sample: the raw point just read *)
NextPrevious(current_point, new_point) == current_point

RECURSIVE WaveLoop(_, _, _, _)
WaveLoop(rest, previous_point, wave, PHASECAL) ==
    IF rest = <<>> THEN wave
    ELSE LET current_point == Head(rest) * CScale
             new_point == NewPoint(previous_point, current_point, PHASECAL)
         IN WaveLoop(Tail(rest), NextPrevious(current_point, new_point),
                     Append(wave, new_point), PHASECAL)

(* Variant: the loop runs over all of v_wave instead of v_wave[1:] *)
BuildWaveNoSkip(v_wave, PHASECAL) ==
    WaveLoop(v_wave, v_wave[1] * CScale, <<v_wave[1] * CScale>>, PHASECAL)

(* The list 'wave' built from v_wave; v_wave[0] of an empty list raises IndexError *)
BuildWave(v_wave, PHASECAL) ==
    WaveLoop(Tail(v_wave), v_wave[1] * CScale, <<v_wave[1] * CScale>>, PHASECAL)

rebuild_wave(ct, v_wave, PHASECAL) ==
    IF v_wave = <<>> THEN [status |-> "IndexError"]
    ELSE [status |-> "ok",
          new_v |-> BuildWave(v_wave, PHASECAL),
          ct |-> ct,
          original_v |-> v_wave]

(* lines 447-462: one pass over voltage_samples[1:] that extends the six *)
(* waves, each with its own PHASECAL, from one shared previous_point      *)
RECURSIVE WavesLoop(_, _, _, _)
WavesLoop(rest, previous_point, waves, PHASECALS) ==
    IF rest = <<>> THEN waves
    ELSE LET current_point == Head(rest) * CScale
         IN WavesLoop(Tail(rest), current_point,
                      [ch \in Channels |->
                          Append(waves[ch],
                                 NewPoint(previous_point, current_point, PHASECALS[ch]))],
                      PHASECALS)

(* Variant: every wave is built with the coefficient of channel 1 *)
BuildWavesFirstCal(voltage_samples, PHASECALS) ==
    WavesLoop(Tail(voltage_samples), voltage_samples[1] * CScale,
              [ch \in Channels |-> <<voltage_samples[1] * CScale>>],
              [ch \in Channels |-> PHASECALS["ct1"]])

(* lines 430-462: wave_1 .. wave_6 *)
BuildWaves(voltage_samples, PHASECALS) ==
    WavesLoop(Tail(voltage_samples), voltage_samples[1] * CScale,
              [ch \in Channels |-> <<voltage_samples[1] * CScale>>], PHASECALS)

rebuild_waves(s, PHASECALS) ==
    IF s["voltage"] = <<>> THEN [status |-> "IndexError"]
    ELSE [status |-> "ok",
          v |-> BuildWaves(s["voltage"], PHASECALS),
          voltage |-> s["voltage"],
          ct |-> [ch \in Channels |-> s[ch]]]

-----------------------------------------------------------------------------
(* check_phasecal / calculate_power *)

(* Variant: rounding down instead of toward zero *)
IntFloor(x) == x \div CScale

(* int(x) of a float x held as x * CScale: truncation toward zero *)
IntOf(x) == IF x >= 0 THEN x \div CScale ELSE -((-x) \div CScale)

RECURSIVE SumTo(_, _)
SumTo(f, n) == IF n = 0 THEN 0 ELSE f[n] + SumTo(f, n - 1)

(* The accumulators after the pass over range(0, num_samples) *)
Accumulate(ct, wave, num_samples) ==
    LET c == [i \in 1..num_samples |-> ct[i]]
        v == [i \in 1..num_samples |-> IntOf(wave[i])]
    IN [sum_raw_current |-> SumTo(c, num_samples),
        sum_raw_voltage |-> SumTo(v, num_samples),
        sum_inst_power |-> SumTo([i \in 1..num_samples |-> c[i] * v[i]], num_samples),
        sum_squared_current |-> SumTo([i \in 1..num_samples |-> c[i] * c[i]], num_samples),
        sum_squared_voltage |-> SumTo([i \in 1..num_samples |-> v[i] * v[i]], num_samples)]

(* Variant: the mean product without the product of the means removed *)
RealPowerNoMean(acc, n) ==
    [num |-> n * acc.sum_inst_power, den |-> n * n]

(* (sum_inst_power / n) - avg_raw_current * avg_raw_voltage, before scaling *)
RealPowerTerm(acc, n) ==
    [num |-> n * acc.sum_inst_power - acc.sum_raw_current * acc.sum_raw_voltage,
     den |-> n * n]

(* Variant: the mean square without the DC term removed *)
MeanSquareNoMean(sum_squared, sum_raw, n) ==
    [num |-> n * sum_squared, den |-> n * n]

(* mean_square - avg * avg: the argument of sqrt for an RMS value *)
MeanSquareTerm(sum_squared, sum_raw, n) ==
    [num |-> n * sum_squared - sum_raw * sum_raw, den |-> n * n]

(* real_power / apparent_power, ZeroDivisionError caught as 0 *)
ZeroPF == [num |-> 0, den2 |-> 1]

(* Variant: the division without the ZeroDivisionError handler *)
PowerFactorUncaught(real_power, ms_current, ms_voltage) ==
    [num |-> real_power.num, den2 |-> ms_current.num * ms_voltage.num]

PowerFactor(real_power, ms_current, ms_voltage) ==
    IF ms_current.num * ms_voltage.num = 0
    THEN ZeroPF
    ELSE [num |-> real_power.num, den2 |-> ms_current.num * ms_voltage.num]

(* One channel's reading from its accumulators *)
Reading(acc, n) ==
    LET real_power == RealPowerTerm(acc, n)
        ms_current == MeanSquareTerm(acc.sum_squared_current, acc.sum_raw_current, n)
        ms_voltage == MeanSquareTerm(acc.sum_squared_voltage, acc.sum_raw_voltage, n)
    IN [power |-> real_power,
        current |-> ms_current,
        voltage |-> ms_voltage,
        pf |-> PowerFactor(real_power, ms_current, ms_voltage)]

check_phasecal(ct, wave) ==
    LET num_samples == Len(wave)
    IN IF Len(ct) < num_samples THEN [status |-> "IndexError"]
       ELSE IF num_samples = 0 THEN [status |-> "ZeroDivisionError"]
       ELSE [status |-> "ok", num_samples |-> num_samples,
             reading |-> Reading(Accumulate(ct, wave, num_samples), num_samples)]

calculate_power(ct, v) ==
    LET num_samples == Len(v["ct1"])
    IN IF \E ch \in Channels : Len(ct[ch]) < num_samples \/ Len(v[ch]) < num_samples
       THEN [status |-> "IndexError"]
       ELSE IF num_samples = 0 THEN [status |-> "ZeroDivisionError"]
       ELSE [status |-> "ok", num_samples |-> num_samples,
             reading |-> [ch \in Channels |->
                            Reading(Accumulate(ct[ch], v[ch], num_samples), num_samples)]]

-----------------------------------------------------------------------------
(* The configured coefficients of config.py, in units of 1 / CScale *)
CT_PHASE_CORRECTION ==
    [ch \in Channels |->
        CASE ch = "ct1" -> 10331
          [] ch = "ct2" -> 10611
          [] ch = "ct3" -> 11623
          [] ch = "ct4" -> 13735
          [] ch = "ct5" -> 10417
          [] ch = "ct6" -> 15333]

PhaseConfigs == {CT_PHASE_CORRECTION} \cup {[ch \in Channels |-> p] : p \in PhaseCals}

(* A batch: the selected channel carries its own current samples, the *)
(* other channels a load in phase with the voltage                     *)
Batch(a, v, sel) ==
    [k \in Channels \cup {"voltage"} |-> IF k = sel THEN a ELSE v]

Scaled(v) == [i \in 1..Len(v) |-> v[i] * CScale]

Init ==
    /\ ct_selection = "ct1"
    /\ \E a \in InputSeqs, v \in InputSeqs : samples = Batch(a, v, ct_selection)
    /\ ct_phase_correction \in PhaseConfigs
    /\ rebuilt_wave = None
    /\ check_results = None
    /\ rebuilt_waves = None
    /\ results = None
    /\ pc = "rebuild_waves"
    /\ phase = None
    /\ cal = None
    /\ log = <<>>
    /\ env = None
    /\ board = None
    /\ db = None
    /\ loop = None
    /\ sink = <<>>

(* run_main: rebuild_waves(samples, self.ct_phase_correction[...]) *)
RebuildWaves ==
    /\ pc = "rebuild_waves"
    /\ rebuilt_waves' = rebuild_waves(samples, ct_phase_correction)
    /\ pc' = "calculate_power"
    /\ UNCHANGED <<samples, ct_phase_correction, ct_selection, rebuilt_wave,
                   check_results, results, phaseVars, mainVars>>

(* The sequences calculate_power is handed: the rebuilt waves, or the raw *)
(* batch when there is nothing to rebuild                                 *)
CalculatePower ==
    /\ pc = "calculate_power"
    /\ results' = IF rebuilt_waves.status = "ok"
                  THEN calculate_power(rebuilt_waves.ct, rebuilt_waves.v)
                  ELSE calculate_power([ch \in Channels |-> samples[ch]],
                                       [ch \in Channels |-> Scaled(samples["voltage"])])
    /\ pc' = "rebuild_wave"
    /\ UNCHANGED <<samples, ct_phase_correction, ct_selection, rebuilt_wave,
                   check_results, rebuilt_waves, phaseVars, mainVars>>

(* rebuild_wave(samples[ct_selection], samples['voltage'], PHASECAL) *)
RebuildWave ==
    /\ pc = "rebuild_wave"
    /\ rebuilt_wave' = rebuild_wave(samples[ct_selection], samples["voltage"],
                                    ct_phase_correction[ct_selection])
    /\ pc' = "check_phasecal"
    /\ UNCHANGED <<samples, ct_phase_correction, ct_selection, check_results,
                   rebuilt_waves, results, phaseVars, mainVars>>

(* check_phasecal(rebuilt_wave['ct'], rebuilt_wave['new_v'], board_voltage) *)
CheckPhasecal ==
    /\ pc = "check_phasecal"
    /\ check_results' = IF rebuilt_wave.status = "ok"
                        THEN check_phasecal(rebuilt_wave.ct, rebuilt_wave.new_v)
                        ELSE check_phasecal(samples[ct_selection], Scaled(samples["voltage"]))
    /\ pc' = "done"
    /\ UNCHANGED <<samples, ct_phase_correction, ct_selection, rebuilt_wave,
                   rebuilt_waves, results, phaseVars, mainVars>>

Next == RebuildWaves \/ CalculatePower \/ RebuildWave \/ CheckPhasecal

Spec == Init /\ [][Next]_vars

-----------------------------------------------------------------------------
(* Properties of the reconstructor and the calculator *)

(* The coefficient rebuild_wave was called with *)
SelectedCal == ct_phase_correction[ct_selection]

(* x truncated toward zero, for a value held as x * CScale *)
TruncTowardZero(x) == IF x >= 0 THEN x \div CScale ELSE -((-x) \div CScale)

(* w[0] = v[0] and w[i] = v[i-1] + c * (v[i] - v[i-1]): interpolation *)
(* between the previous RAW sample and the current raw sample           *)
RawRecurrence(w, v, c) ==
    /\ Len(w) = Len(v)
    /\ w[1] = v[1] * CScale
    /\ \A i \in 2..Len(v) : w[i] = v[i-1] * CScale + c * (v[i] - v[i-1])

(* w[0] = v[0] and w[i] = w[i-1] + c * (v[i] - w[i-1]), exactly *)
CorrectedRecurrence(w, v, c) ==
    /\ Len(w) = Len(v)
    /\ w[1] = v[1] * CScale
    /\ \A i \in 2..Len(v) :
          LET y == v[i] * CScale - w[i-1]
          IN /\ (c * (y % CScale)) % CScale = 0
             /\ w[i] - w[i-1] = MulDiv(c, y)

(* C1, as stated: every rebuilt wave follows the recurrence on the previous *)
(* CORRECTED sample, V'[i] = V'[i-1] + c * (V[i] - V'[i-1])                  *)
C1_CorrectedRecurrence ==
    /\ rebuilt_wave.status = "ok" =>
          CorrectedRecurrence(rebuilt_wave.new_v, rebuilt_wave.original_v, SelectedCal)
    /\ rebuilt_waves.status = "ok" =>
          \A ch \in Channels :
             CorrectedRecurrence(rebuilt_waves.v[ch], rebuilt_waves.voltage,
                                 ct_phase_correction[ch])

(* C1, amended: every rebuilt wave (rebuild_wave's new_v and each v_ctK of   *)
(* rebuild_waves) has V'[0] = V[0] and V'[i] = V[i-1] + c * (V[i] - V[i-1]) *)
(* for i >= 1: each corrected sample is computed from the previous RAW       *)
(* sample, not from the previous corrected one                               *)
C1_RawRecurrence ==
    /\ rebuilt_wave.status = "ok" =>
          RawRecurrence(rebuilt_wave.new_v, rebuilt_wave.original_v, SelectedCal)
    /\ rebuilt_waves.status = "ok" =>
          \A ch \in Channels :
             RawRecurrence(rebuilt_waves.v[ch], rebuilt_waves.voltage,
                           ct_phase_correction[ch])

(* A wave of three samples or more, rebuilt with c # 1 over a changing voltage *)
C1_Witness ==
    /\ rebuilt_wave.status = "ok"
    /\ rebuilt_waves.status = "ok"
    /\ Len(rebuilt_wave.original_v) >= 3
    /\ SelectedCal # CScale
    /\ rebuilt_wave.original_v[1] # rebuilt_wave.original_v[2]
    /\ rebuilt_wave.new_v[3] # rebuilt_wave.original_v[3] * CScale

(* C2: with c = 1.0 and a voltage sequence of length > 1, rebuild_wave and  *)
(* rebuild_waves return a wave equal element by element to the input (same *)
(* length, same values) and leave the input sequence as it was              *)
C2_Identity ==
    [][ /\ (pc = "rebuild_wave" /\ Len(samples["voltage"]) > 1 /\ SelectedCal = CScale)
           => /\ rebuilt_wave'.status = "ok"
              /\ rebuilt_wave'.new_v = Scaled(samples["voltage"])
              /\ rebuilt_wave'.original_v = samples["voltage"]
              /\ samples' = samples
        /\ (pc = "rebuild_waves" /\ Len(samples["voltage"]) > 1)
           => /\ rebuilt_waves'.status = "ok"
              /\ \A ch \in Channels :
                    ct_phase_correction[ch] = CScale
                       => rebuilt_waves'.v[ch] = Scaled(samples["voltage"])
              /\ rebuilt_waves'.voltage = samples["voltage"]
              /\ samples' = samples ]_vars

(* Both reconstructors have run with c = 1.0 on a changing voltage sequence *)
C2_Witness ==
    /\ rebuilt_wave.status = "ok"
    /\ rebuilt_waves.status = "ok"
    /\ \A ch \in Channels : ct_phase_correction[ch] = CScale
    /\ Len(samples["voltage"]) = MaxLen
    /\ samples["voltage"][1] # samples["voltage"][2]

(* N * N * (mean(I * X) - mean(I) * mean(X)) over the first n samples *)
CoreTerm(ct, x, n) ==
    n * SumTo([i \in 1..n |-> ct[i] * x[i]], n)
       - SumTo([i \in 1..n |-> ct[i]], n) * SumTo([i \in 1..n |-> x[i]], n)

Truncated(w) == [i \in 1..Len(w) |-> TruncTowardZero(w[i])]

(* The anchor batch I = V = [10, 20, 30, 40] with c = 1.0: the means are 25, *)
(* mean(I * V) is 750 and the term is exactly 125                             *)
AnchorHolds(ct, w, n, reading) ==
    (ct = AnchorSeq /\ w = Scaled(AnchorSeq)) =>
        LET acc == Accumulate(ct, w, n)
        IN /\ acc.sum_raw_current = 25 * n
           /\ acc.sum_raw_voltage = 25 * n
           /\ acc.sum_inst_power = 750 * n
           /\ reading.power.num = 125 * reading.power.den

(* C3, as stated: for I and V' of equal length N > 0 the unscaled real-power *)
(* term is mean(I * V') - mean(I) * mean(V') of the reconstructed samples V'  *)
(* themselves, and is exactly 125 for the anchor batch                        *)
C3_RealPowerTerm ==
    /\ (check_results.status = "ok" /\ Len(rebuilt_wave.ct) = Len(rebuilt_wave.new_v)) =>
          LET n == check_results.num_samples
          IN /\ check_results.reading.power.den = n * n
             /\ check_results.reading.power.num * CScale
                   = CoreTerm(rebuilt_wave.ct, rebuilt_wave.new_v, n)
             /\ AnchorHolds(rebuilt_wave.ct, rebuilt_wave.new_v, n, check_results.reading)
    /\ (pc = "done" /\ results.status = "ok") =>
          \A ch \in Channels :
             Len(rebuilt_waves.ct[ch]) = Len(rebuilt_waves.v[ch]) =>
                LET n == results.num_samples
                IN /\ results.reading[ch].power.den = n * n
                   /\ results.reading[ch].power.num * CScale
                         = CoreTerm(rebuilt_waves.ct[ch], rebuilt_waves.v[ch], n)
                   /\ AnchorHolds(rebuilt_waves.ct[ch], rebuilt_waves.v[ch], n,
                                  results.reading[ch])

(* C3, amended: for I and V' of equal length N > 0 the unscaled real-power   *)
(* term is mean(I * T) - mean(I) * mean(T) where T[i] = int(V'[i]) is the     *)
(* reconstructed sample truncated toward zero; for the anchor batch with      *)
(* c = 1.0 the means are 25, mean(I * V) is 750 and the term is exactly 125   *)
C3_TruncatedRealPowerTerm ==
    /\ (check_results.status = "ok" /\ Len(rebuilt_wave.ct) = Len(rebuilt_wave.new_v)) =>
          LET n == check_results.num_samples
          IN /\ n = Len(rebuilt_wave.new_v)
             /\ check_results.reading.power.den = n * n
             /\ check_results.reading.power.num
                   = CoreTerm(rebuilt_wave.ct, Truncated(rebuilt_wave.new_v), n)
             /\ AnchorHolds(rebuilt_wave.ct, rebuilt_wave.new_v, n, check_results.reading)
    /\ (pc = "done" /\ results.status = "ok") =>
          \A ch \in Channels :
             Len(rebuilt_waves.ct[ch]) = Len(rebuilt_waves.v[ch]) =>
                LET n == results.num_samples
                IN /\ n = Len(rebuilt_waves.v[ch])
                   /\ results.reading[ch].power.den = n * n
                   /\ results.reading[ch].power.num
                         = CoreTerm(rebuilt_waves.ct[ch], Truncated(rebuilt_waves.v[ch]), n)
                   /\ AnchorHolds(rebuilt_waves.ct[ch], rebuilt_waves.v[ch], n,
                                  results.reading[ch])

(* The calculator has read a wave with a negative fractional sample *)
C3_Witness ==
    /\ check_results.status = "ok"
    /\ results.status = "ok"
    /\ Len(rebuilt_wave.ct) = Len(rebuilt_wave.new_v)
    /\ \E i \in 1..Len(rebuilt_wave.new_v) :
          /\ rebuilt_wave.new_v[i] < 0
          /\ rebuilt_wave.new_v[i] % CScale # 0
          /\ rebuilt_wave.ct[i] # 0
    /\ check_results.reading.power.num # 0

(* The anchor batch has been through both calculators with c = 1.0 *)
C3_AnchorWitness ==
    /\ check_results.status = "ok"
    /\ results.status = "ok"
    /\ rebuilt_wave.ct = AnchorSeq
    /\ rebuilt_wave.new_v = Scaled(AnchorSeq)
    /\ check_results.reading.power = [num |-> 2000, den |-> 16]

(* apparent_power == 0: one of the two RMS values is 0 *)
ApparentZero(reading) == reading.current.num = 0 \/ reading.voltage.num = 0

Flat(x) == \A i \in 1..Len(x) : x[i] = x[1]

(* A reading whose power factor is 0 exactly when apparent power is 0, and *)
(* the plain quotient otherwise                                             *)
ZeroSafe(reading) ==
    IF ApparentZero(reading)
    THEN reading.pf = ZeroPF
    ELSE /\ reading.pf.num = reading.power.num
         /\ reading.pf.den2 = reading.current.num * reading.voltage.num
         /\ reading.pf.den2 > 0

(* C4: whenever apparent power is 0 (in particular for flat current and   *)
(* voltage sequences of any length N > 0) calculate_power and             *)
(* check_phasecal return power_factor exactly 0 for that channel and do    *)
(* not raise; the other channels keep their own quotient                   *)
C4_ZeroSafety ==
    /\ (pc = "done" /\ rebuilt_wave.status = "ok") =>
          /\ (Len(rebuilt_wave.ct) >= Len(rebuilt_wave.new_v)) => check_results.status = "ok"
          /\ check_results.status = "ok" =>
                /\ (Flat(rebuilt_wave.ct) /\ Flat(rebuilt_wave.new_v))
                      => ApparentZero(check_results.reading)
                /\ ZeroSafe(check_results.reading)
    /\ (pc = "done" /\ rebuilt_waves.status = "ok") =>
          /\ (\A ch \in Channels : Len(rebuilt_waves.ct[ch]) >= Len(rebuilt_waves.v["ct1"]))
                => results.status = "ok"
          /\ results.status = "ok" =>
                \A ch \in Channels :
                   /\ (Flat(rebuilt_waves.ct[ch]) /\ Flat(rebuilt_waves.v[ch]))
                         => ApparentZero(results.reading[ch])
                   /\ ZeroSafe(results.reading[ch])

(* One channel of a batch has a flat current and power factor 0 while *)
(* another channel of the same batch has a power factor that is not 0  *)
C4_Witness ==
    /\ pc = "done"
    /\ check_results.status = "ok"
    /\ results.status = "ok"
    /\ Flat(rebuilt_wave.ct)
    /\ check_results.reading.pf = ZeroPF
    /\ results.reading[ct_selection].pf = ZeroPF
    /\ \E ch \in Channels : results.reading[ch].pf.num # 0

(* C5, as stated: whenever a current sequence and its reconstructed voltage *)
(* sequence differ in length (current shorter or longer), or are empty,     *)
(* check_phasecal and calculate_power raise and return no reading           *)
C5_MismatchIsFatal ==
    LET bad == \/ Len(samples[ct_selection]) # Len(samples["voltage"])
               \/ Len(samples["voltage"]) = 0
    IN /\ (pc = "done" /\ bad) => check_results.status # "ok"
       /\ (pc = "done" /\ bad) => results.status # "ok"

Shift(ct, D) == [i \in 1..Len(ct) |-> ct[i] + D]

(* The largest code of the 10-bit converter *)
ADC_MAX == 1023

MaxOffset == 2

Offsets == (1..MaxOffset) \cup {ADC_MAX - MaxCode}

InRange(ct) == \A i \in 1..Len(ct) : ct[i] \in 0..ADC_MAX

(* C6: the term mean(I^2) - mean(I)^2 under rms_current, and the real-power *)
(* term mean(I*V) - mean(I)*mean(V), are the same with and without a        *)
(* constant offset D added to every current sample, for every current        *)
(* sequence and every D that keeps the codes in range                        *)
C6_DCRejection ==
    /\ check_results.status = "ok" =>
          \A D \in Offsets :
             InRange(Shift(rebuilt_wave.ct, D)) =>
                LET shifted == check_phasecal(Shift(rebuilt_wave.ct, D), rebuilt_wave.new_v)
                IN /\ shifted.status = "ok"
                   /\ shifted.reading.current = check_results.reading.current
                   /\ shifted.reading.power = check_results.reading.power
    /\ (pc = "done" /\ results.status = "ok") =>
          \A D \in Offsets :
             (\A ch \in Channels : InRange(Shift(rebuilt_waves.ct[ch], D))) =>
                LET shifted == calculate_power(
                                  [ch \in Channels |-> Shift(rebuilt_waves.ct[ch], D)],
                                  rebuilt_waves.v)
                IN /\ shifted.status = "ok"
                   /\ \A ch \in Channels :
                         /\ shifted.reading[ch].current = results.reading[ch].current
                         /\ shifted.reading[ch].power = results.reading[ch].power

(* A changing current sequence with nonzero real power has been measured *)
(* and every offset keeps it in range                                     *)
C6_Witness ==
    /\ check_results.status = "ok"
    /\ results.status = "ok"
    /\ check_results.reading.current.num > 0
    /\ check_results.reading.power.num # 0
    /\ InRange(Shift(rebuilt_wave.ct, ADC_MAX - MaxCode))

-----------------------------------------------------------------------------
(* Phase mode: the orientation check and find_phasecal                      *)
(*                                                                         *)
(* A power factor pf is the integer pf * PFScale.  The fine step sizes are  *)
(* held by the number of times their gap to 1.0 has been halved:            *)
(* increment = 1 + 1 / (BASE_GAP_DEN * 2^k), decrement = 1 - the same gap.  *)

PFScale == 100000

NUM_ROUNDS == 3
NUM_ITERATIONS == 75
BASE_GAP_DEN == 200
big_increment == 10100
big_decrement == 9800

(* round(pf, digits), halves to the even neighbour *)
Round(pf, digits) ==
    LET unit == 10 ^ (5 - digits)
        q == pf \div unit
        r == pf % unit
    IN IF 2 * r < unit THEN q * unit
       ELSE IF 2 * r > unit THEN (q + 1) * unit
       ELSE IF q % 2 = 0 THEN q * unit ELSE (q + 1) * unit

(* previous_phasecal * big_increment or * big_decrement, to the nearest unit *)
TimesBig(c, factor) == (c * factor + CScale \div 2) \div CScale

(* c * (gap of a fine step halved k times), to the nearest unit *)
FineGap(c, k) ==
    IF k >= 20 THEN 0
    ELSE LET den == BASE_GAP_DEN * (2 ^ k) IN (c + den \div 2) \div den

TimesIncrement(c, increment) == c + FineGap(c, increment)
TimesDecrement(c, decrement) == c - FineGap(c, decrement)

Abs(x) == IF x < 0 THEN -x ELSE x
Max(a, b) == IF a >= b THEN a ELSE b

(* The loads: power factor as a function of the coefficient, highest      *)
(* (peak) within width of cstar and falling by slope per unit beyond that *)
Loads ==
    { [cstar |-> 12000, peak |-> PFScale, slope |-> 10, width |-> 0],
      [cstar |-> 10300, peak |-> PFScale, slope |-> 10, width |-> 0],
      [cstar |-> 10000, peak |-> PFScale, slope |-> 10, width |-> 0],
      [cstar |-> 11000, peak |-> PFScale, slope |-> 10, width |-> 70],
      [cstar |-> 10500, peak |-> PFScale - 100, slope |-> 1, width |-> 0] }

LoadPF(load, c) ==
    Max(0, load.peak - load.slope * Max(0, Abs(c - load.cstar) - load.width))

(* Readings that do not follow the load: a disturbed batch *)
NoisePFs == {0 - 30000, 90000, 99700, PFScale}

MaxNoise == 2
(* A measurement number no run reaches: the run is never disturbed *)
NoNoise == NUM_ROUNDS * NUM_ITERATIONS + 1
NoiseStarts == {NoNoise, 0, 1, 74, 149}

(* The power factors check_phasecal can return for measurement number m *)
(* taken with coefficient c                                              *)
Readings(m, c) ==
    IF m \in env.noiseStart .. (env.noiseStart + MaxNoise - 1)
    THEN NoisePFs
    ELSE {IF env.reversed THEN -LoadPF(env.load, c) ELSE LoadPF(env.load, c)}

InitPhase ==
    /\ ct_selection \in {"ct1", "ct6"}
    /\ ct_phase_correction = CT_PHASE_CORRECTION
    /\ samples = None
    /\ rebuilt_wave = None
    /\ check_results = None
    /\ rebuilt_waves = None
    /\ results = None
    /\ pc = "orientation"
    /\ phase = [pf |-> 0, initial_pf |-> 0, checks |-> <<>>, avg_phasecal |-> 0]
    /\ cal = None
    /\ log = <<>>
    /\ \E load \in Loads, noiseStart \in NoiseStarts, reversed \in BOOLEAN :
          env = [load |-> load, noiseStart |-> noiseStart, reversed |-> reversed]
    /\ board = None
    /\ db = None
    /\ loop = None
    /\ sink = <<>>

(* A driver that goes on to calibrate whatever the first reading is *)
AfterOrientationNoPrompt(pf) == "calibrate"

(* line 1089: where the driver goes after the first orientation reading *)
AfterOrientation(pf) == IF pf < 0 THEN "reversal_prompt" ELSE "calibrate"

(* A driver whose first orientation reading is taken with coefficient 1.0 *)
OrientationCheckAtOne ==
    /\ pc = "orientation"
    /\ LET c == CScale
           pf == IF env.reversed THEN -LoadPF(env.load, c) ELSE LoadPF(env.load, c)
       IN /\ phase' = [phase EXCEPT !.pf = pf, !.initial_pf = pf,
                                    !.checks = Append(@, c)]
          /\ pc' = AfterOrientation(pf)
    /\ UNCHANGED <<ct_phase_correction, ct_selection, calcVars, mainVars, cal, log, env>>

(* lines 1079-1089: the first batch, rebuilt with the configured coefficient *)
OrientationCheck ==
    /\ pc = "orientation"
    /\ LET c == ct_phase_correction[ct_selection]
           pf == IF env.reversed THEN -LoadPF(env.load, c) ELSE LoadPF(env.load, c)
       IN /\ phase' = [phase EXCEPT !.pf = pf, !.initial_pf = pf,
                                    !.checks = Append(@, c)]
          /\ pc' = AfterOrientation(pf)
    /\ UNCHANGED <<ct_phase_correction, ct_selection, calcVars, mainVars, cal, log, env>>

(* lines 1090-1094: tell the operator to reverse the CT, then block on input *)
ReversalPrompt ==
    /\ pc = "reversal_prompt"
    /\ log' = Append(log, "reverse_ct")
    /\ pc' = "await_enter"
    /\ UNCHANGED <<ct_phase_correction, ct_selection, calcVars, mainVars, phase, cal, env>>

(* line 1094: the operator presses ENTER, having reversed the CT or not *)
OperatorEnter ==
    /\ pc = "await_enter"
    /\ \E reversed \in BOOLEAN : env' = [env EXCEPT !.reversed = reversed]
    /\ log' = Append(log, "enter")
    /\ pc' = "recheck"
    /\ UNCHANGED <<ct_phase_correction, ct_selection, calcVars, mainVars, phase, cal>>

(* A driver that goes on to calibrate whatever the second reading is *)
AfterRecheckContinue(pf) == "calibrate"

(* lines 1101-1104: where the driver goes after the reading that follows the *)
(* reversal                                                                  *)
AfterRecheck(pf) == IF pf < 0 THEN "exit" ELSE "calibrate"

(* lines 1096-1104: a second batch, rebuilt with 1; still negative is sys.exit() *)
Recheck ==
    /\ pc = "recheck"
    /\ LET c == CScale
           pf == IF env.reversed THEN -LoadPF(env.load, c) ELSE LoadPF(env.load, c)
       IN /\ phase' = [phase EXCEPT !.pf = pf, !.checks = Append(@, c)]
          /\ pc' = AfterRecheck(pf)
          /\ log' = IF pf < 0 THEN Append(log, "still_backwards") ELSE log
    /\ UNCHANGED <<ct_phase_correction, ct_selection, calcVars, mainVars, cal, env>>

(* lines 1106-1113 and 781-799: a fresh batch is handed to find_phasecal, which *)
(* takes its initial power factor with PHASECAL 1.0 (measurement number 0).     *)
(* The field measured is history, not a local of the code: the (coefficient,    *)
(* power factor) pairs of the batches taken in the current round.               *)
EnterFindPhasecal ==
    /\ pc = "calibrate"
    /\ \E pf \in Readings(0, CScale) :
          cal' = [pf |-> pf,
                  best_pfs |-> <<>>,
                  previous_phasecal |-> CScale,
                  previous_pf |-> pf,
                  trends |-> <<>>,
                  increment |-> 0,
                  decrement |-> 0,
                  best_pf |-> [pf |-> 0, cal |-> 0],
                  new_phasecal |-> 0,
                  assigned |-> FALSE,
                  action |-> "",
                  i |-> 0,
                  j |-> 0,
                  acq |-> 0,
                  measured |-> {}]
    /\ pc' = "round"
    /\ UNCHANGED <<ct_phase_correction, ct_selection, calcVars, mainVars, phase, log, env>>

(* lines 801-805: the next of the three rounds starts with an empty best_pf *)
RoundStart ==
    /\ pc = "round"
    /\ cal.i < NUM_ROUNDS
    /\ cal' = [cal EXCEPT !.i = @ + 1, !.j = 0, !.best_pf = [pf |-> 0, cal |-> 0],
                         !.measured = {}]
    /\ pc' = "iterate"
    /\ UNCHANGED <<ct_phase_correction, ct_selection, calcVars, mainVars, phase, log, env>>

(* A success test that rounds to accuracy_digits (3) places *)
SuccessAccuracyDigits(c) == Round(c.pf, 3) = PFScale

(* line 808: the power factor rounds to 1.0 at 4 places *)
Success(c) == Round(c.pf, 4) = PFScale

(* lines 808-813: the success test with new_phasecal assigned: record and break *)
IterSuccess ==
    /\ pc = "iterate"
    /\ cal.j < NUM_ITERATIONS
    /\ Success(cal)
    /\ cal.assigned
    /\ cal' = [cal EXCEPT !.best_pf = [pf |-> cal.pf, cal |-> cal.new_phasecal]]
    /\ pc' = "round_end"
    /\ UNCHANGED <<ct_phase_correction, ct_selection, calcVars, mainVars, phase, log, env>>

(* line 811 reading new_phasecal before any assignment: UnboundLocalError, *)
(* which nothing catches                                                    *)
IterUnbound ==
    /\ pc = "iterate"
    /\ cal.j < NUM_ITERATIONS
    /\ Success(cal)
    /\ ~cal.assigned
    /\ pc' = "raised"
    /\ log' = Append(log, "UnboundLocalError")
    /\ UNCHANGED <<ct_phase_correction, ct_selection, calcVars, mainVars, phase, cal, env>>

(* A walk that has no fine steps: the big variants whatever the power factor *)
DirectionCoarse(c) ==
    IF c.pf < PFScale
    THEN [new_phasecal |-> TimesBig(c.previous_phasecal, big_increment),
          action |-> "incremented"]
    ELSE [new_phasecal |-> TimesBig(c.previous_phasecal, big_decrement),
          action |-> "decremented"]

(* lines 815-827: the coefficient to try next and the action taken *)
Direction(c) ==
    IF c.pf < PFScale
    THEN [new_phasecal |-> IF Round(c.pf, 2) # PFScale
                           THEN TimesBig(c.previous_phasecal, big_increment)
                           ELSE TimesIncrement(c.previous_phasecal, c.increment),
          action |-> "incremented"]
    ELSE [new_phasecal |-> IF Round(c.pf, 2) # PFScale
                           THEN TimesBig(c.previous_phasecal, big_decrement)
                           ELSE TimesDecrement(c.previous_phasecal, c.decrement),
          action |-> "decremented"]

(* lines 834-838 *)
BestAfter(best_pf, pf, new_phasecal) ==
    IF pf > best_pf.pf THEN [pf |-> pf, cal |-> new_phasecal] ELSE best_pf

(* A damper that looks at the latest delta only *)
WorseLatest(trends) == trends[2] < 0

(* lines 850-851: both deltas of the full window are negative *)
Worse(trends) == trends[1] < 0 /\ trends[2] < 0

(* A walk whose trend window slides: it keeps the two latest deltas and is *)
(* never emptied                                                         *)
AfterMeasureSliding(c, d, pf) ==
    LET trends == Append(c.trends, pf - c.previous_pf)
    IN [c EXCEPT !.pf = pf,
                 !.best_pf = BestAfter(c.best_pf, pf, d.new_phasecal),
                 !.previous_phasecal = d.new_phasecal,
                 !.new_phasecal = d.new_phasecal,
                 !.action = d.action,
                 !.assigned = TRUE,
                 !.j = @ + 1,
                 !.acq = @ + 1,
                 !.measured = @ \cup {[pf |-> pf, cal |-> d.new_phasecal]},
                 !.trends = IF Len(trends) > 2 THEN Tail(trends) ELSE trends,
                 !.previous_pf = pf]

(* lines 845-879: the state after the batch taken with d.new_phasecal gave pf *)
AfterMeasure(c, d, pf) ==
    LET trends == Append(c.trends, pf - c.previous_pf)
        previous_phasecal == d.new_phasecal
        measured == [c EXCEPT !.pf = pf,
                              !.best_pf = BestAfter(c.best_pf, pf, d.new_phasecal),
                              !.previous_phasecal = previous_phasecal,
                              !.action = d.action,
                              !.assigned = TRUE,
                              !.j = @ + 1,
                              !.acq = @ + 1,
                              !.measured = @ \cup {[pf |-> pf, cal |-> d.new_phasecal]}]
    IN IF Len(trends) = 2
       THEN LET increment == IF Worse(trends) THEN c.increment + 1 ELSE c.increment
                decrement == IF Worse(trends) THEN c.decrement + 1 ELSE c.decrement
            IN [measured EXCEPT
                   !.increment = increment,
                   !.decrement = decrement,
                   !.new_phasecal =
                       IF Worse(trends)
                       THEN IF d.action = "increment"
                            THEN TimesDecrement(previous_phasecal, decrement)
                            ELSE TimesIncrement(previous_phasecal, increment)
                       ELSE d.new_phasecal,
                   !.trends = <<>>]
       ELSE [measured EXCEPT
                   !.new_phasecal =
                       IF d.action = "increment"
                       THEN TimesIncrement(previous_phasecal, c.increment)
                       ELSE TimesDecrement(previous_phasecal, c.decrement),
                   !.trends = trends,
                   !.previous_pf = pf]

(* lines 815-879: one stepping iteration with its fresh batch *)
IterStep ==
    /\ pc = "iterate"
    /\ cal.j < NUM_ITERATIONS
    /\ ~Success(cal)
    /\ LET d == Direction(cal)
       IN \E pf \in Readings(cal.acq + 1, d.new_phasecal) :
             cal' = AfterMeasure(cal, d, pf)
    /\ pc' = "iterate"
    /\ UNCHANGED <<ct_phase_correction, ct_selection, calcVars, mainVars, phase, log, env>>

(* lines 881-883: the round is over, by break or after the last iteration *)
RoundEnd ==
    /\ \/ pc = "round_end"
       \/ pc = "iterate" /\ cal.j = NUM_ITERATIONS
    /\ cal' = [cal EXCEPT !.best_pfs = Append(@, cal.best_pf)]
    /\ pc' = "round"
    /\ UNCHANGED <<ct_phase_correction, ct_selection, calcVars, mainVars, phase, log, env>>

RECURSIVE SumCal(_)
SumCal(best_pfs) ==
    IF best_pfs = <<>> THEN 0 ELSE Head(best_pfs).cal + SumCal(Tail(best_pfs))

(* A driver that recommends the first round's coefficient alone *)
FirstCal(best_pfs) == Head(best_pfs).cal

(* line 1114: sum of the 'cal' entries over their number, to the nearest unit *)
AvgPhasecal(best_pfs) ==
    (2 * SumCal(best_pfs) + Len(best_pfs)) \div (2 * Len(best_pfs))

(* A driver that stores the recommended value in the configuration *)
RecommendWritesConfig ==
    /\ pc = "round"
    /\ cal.i = NUM_ROUNDS
    /\ phase' = [phase EXCEPT !.avg_phasecal = AvgPhasecal(cal.best_pfs)]
    /\ ct_phase_correction' =
          [ct_phase_correction EXCEPT ![ct_selection] = AvgPhasecal(cal.best_pfs)]
    /\ log' = Append(log, "recommend")
    /\ pc' = "recommended"
    /\ UNCHANGED <<ct_selection, calcVars, mainVars, cal, env>>

(* lines 885 and 1113-1116: find_phasecal returns best_pfs; the driver logs *)
(* the recommended value                                                    *)
Recommend ==
    /\ pc = "round"
    /\ cal.i = NUM_ROUNDS
    /\ phase' = [phase EXCEPT !.avg_phasecal = AvgPhasecal(cal.best_pfs)]
    /\ log' = Append(log, "recommend")
    /\ pc' = "recommended"
    /\ UNCHANGED <<ct_phase_correction, ct_selection, calcVars, mainVars, cal, env>>

NextPhase ==
    \/ OrientationCheck
    \/ ReversalPrompt
    \/ OperatorEnter
    \/ Recheck
    \/ EnterFindPhasecal
    \/ RoundStart
    \/ IterSuccess
    \/ IterUnbound
    \/ IterStep
    \/ RoundEnd
    \/ Recommend

SpecPhase == InitPhase /\ [][NextPhase]_vars


-----------------------------------------------------------------------------
(* Properties of the phase mode *)

(* The positions inside find_phasecal *)
InFindPhasecal == pc \in {"round", "iterate", "round_end", "raised"}

(* Every reading of the run follows the load: a synthetic f(c) with its *)
(* single maximum at cstar                                               *)
Synthetic == env.noiseStart = NoNoise /\ env.load.width = 0 /\ ~env.reversed

(* 0.01, in units of the coefficient *)
Tolerance == CScale \div 100

(* C7, as stated: driven by a synthetic power-factor function maximized at a *)
(* known c* (reachable from the start coefficient 1.0), the recommended      *)
(* coefficient after the 3 rounds lies within 0.01 of c*                     *)
C7_Convergence ==
    (pc = "recommended" /\ Synthetic) =>
        Abs(phase.avg_phasecal - env.load.cstar) <= Tolerance

(* C8: when the initial orientation reading is negative, the reversal      *)
(* requirement has been signalled and the operator has answered before     *)
(* find_phasecal is entered and before any coefficient step is taken       *)
C8_ReversalBeforeSearch ==
    phase.initial_pf < 0 =>
        /\ (InFindPhasecal \/ pc \in {"calibrate", "recommended"})
              => (Len(log) >= 2 /\ log[1] = "reverse_ct" /\ log[2] = "enter")
        /\ (\A k \in 1..Len(log) : log[k] # "reverse_ct") => cal = None

(* find_phasecal is stepping after a reversed sensor was found and corrected *)
C8_Witness ==
    /\ phase.initial_pf < 0
    /\ pc = "iterate"
    /\ cal.acq > 0

(* The reading taken after the operator confirmed the reversal is negative *)
SecondNegative == Len(phase.checks) = 2 /\ phase.pf < 0

Said(m) == \E k \in 1..Len(log) : log[k] = m

(* C9: a second negative reading ends the calibration run: find_phasecal is *)
(* not entered, no third orientation check is made and no recommended       *)
(* coefficient is emitted                                                    *)
C9_SecondNegativeFatal ==
    /\ Len(phase.checks) <= 2
    /\ SecondNegative =>
          /\ pc = "exit"
          /\ cal = None
          /\ ~Said("recommend")
          /\ Said("still_backwards")
          /\ ~ENABLED NextPhase

C9_Witness == SecondNegative /\ pc = "exit"

(* C10, as stated: for every sequence of measured power factors find_phasecal *)
(* performs exactly 3 rounds of at most 75 iterations each (at most 225 fresh *)
(* acquisitions) and returns exactly 3 round results                          *)
C10_ThreeRounds ==
    (cal # None) =>
        /\ cal.i <= NUM_ROUNDS
        /\ cal.j <= NUM_ITERATIONS
        /\ cal.acq <= NUM_ROUNDS * NUM_ITERATIONS
        /\ Len(cal.best_pfs) <= NUM_ROUNDS
        /\ pc = "recommended" => (cal.i = NUM_ROUNDS /\ Len(cal.best_pfs) = NUM_ROUNDS)
        /\ (pc \in {"round", "iterate", "round_end"} \/ pc = "recommended")

-----------------------------------------------------------------------------
(* Properties of find_phasecal's rounds *)

(* The result of the round that has just ended *)
LastBest == cal.best_pfs[Len(cal.best_pfs)]

RoundJustEnded == pc = "round" /\ cal # None /\ Len(cal.best_pfs) > 0

(* C11, as stated: at the end of every round the recorded round best is the *)
(* highest power factor measured during that round together with the       *)
(* coefficient at which it was measured; the recorded coefficient is one of *)
(* the coefficients evaluated in that round                                 *)
C11_RoundBest ==
    RoundJustEnded =>
        /\ LastBest \in cal.measured
        /\ \A m \in cal.measured : m.pf <= LastBest.pf

(* C12: the recommended coefficient is the arithmetic mean (to the nearest *)
(* unit) of exactly the three round bests find_phasecal returned           *)
C12_MeanOfThree ==
    pc = "recommended" =>
        /\ Len(cal.best_pfs) = 3
        /\ LET sum == cal.best_pfs[1].cal + cal.best_pfs[2].cal + cal.best_pfs[3].cal
           IN 2 * Abs(3 * phase.avg_phasecal - sum) <= 3

(* A recommendation made from three different round bests *)
C12_Witness ==
    /\ pc = "recommended"
    /\ cal.best_pfs[1].cal # cal.best_pfs[2].cal
    /\ cal.best_pfs[2].cal # cal.best_pfs[3].cal
    /\ cal.best_pfs[1].cal # cal.best_pfs[3].cal
    /\ cal.best_pfs[3].cal > 0

(* The latest power factor is within 0.00005 of 1.0: it rounds to 1.0000 *)
RoundsToOne == cal.pf >= PFScale - 5 /\ cal.pf <= PFScale + 5

C14_ConfigUnchanged == [][ct_phase_correction' = ct_phase_correction]_vars

(* A recommendation that differs from the configured coefficient has been *)
(* reported, and the configuration still holds the configured values      *)
C14_Witness ==
    /\ pc = "recommended"
    /\ phase.avg_phasecal # ct_phase_correction[ct_selection]
    /\ ct_phase_correction = CT_PHASE_CORRECTION

-----------------------------------------------------------------------------
(* Properties of the adaptive walk *)

(* The first iteration of a round is about to run *)
AtRoundStart == pc = "iterate" /\ cal.j = 0

(* C15, as stated: every round starts from the same initial walk state:    *)
(* previous coefficient 1.0, fine steps (1.005, 0.995), empty trend window *)
C15_IndependentRounds ==
    AtRoundStart =>
        /\ cal.previous_phasecal = CScale
        /\ cal.increment = 0
        /\ cal.decrement = 0
        /\ cal.trends = <<>>

(* A stepping iteration: a coefficient is chosen and a fresh batch is taken *)
SteppingStep == pc = "iterate" /\ pc' = "iterate" /\ cal'.acq = cal.acq + 1

(* A stepping iteration that fills the trend window with two negative deltas *)
WorseningStep ==
    /\ SteppingStep
    /\ Len(cal.trends) = 1
    /\ cal.trends[1] < 0
    /\ cal'.pf - cal.previous_pf < 0

(* C16, as stated: when the trend is declared worsening, the probe applies *)
(* the opposite of the last action, with the halved step                   *)
C16_ProbeOpposite ==
    [][ WorseningStep =>
          cal'.new_phasecal =
              IF cal'.action = "incremented"
              THEN TimesDecrement(cal'.previous_phasecal, cal'.decrement)
              ELSE TimesIncrement(cal'.previous_phasecal, cal'.increment)
      ]_vars

(* C17, as stated: when the trend is declared worsening, previous_phasecal *)
(* and previous_pf keep the values they had before the iteration           *)
C17_ProbeNotCommitted ==
    [][ WorseningStep =>
          /\ cal'.previous_phasecal = cal.previous_phasecal
          /\ cal'.previous_pf = cal.previous_pf
      ]_vars

(* 0.005, in units of the power factor *)
FineBand == PFScale \div 200

(* The coefficient the direction rule asks for, from the state before the step *)
RuleCoefficient ==
    IF cal.pf < PFScale
    THEN IF Abs(cal.pf - PFScale) > FineBand
         THEN TimesBig(cal.previous_phasecal, big_increment)
         ELSE TimesIncrement(cal.previous_phasecal, cal.increment)
    ELSE IF Abs(cal.pf - PFScale) > FineBand
         THEN TimesBig(cal.previous_phasecal, big_decrement)
         ELSE TimesDecrement(cal.previous_phasecal, cal.decrement)

(* C18: in every stepping iteration the batch is taken with the previous    *)
(* coefficient times an increment when the last power factor is < 1.0 and   *)
(* times a decrement otherwise; big steps (1.01 / 0.98) while the power     *)
(* factor is farther than 0.005 from 1.0, the fine steps within that band   *)
C18_DirectionRule ==
    [][ SteppingStep =>
          /\ cal'.previous_phasecal = RuleCoefficient
          /\ [pf |-> cal'.pf, cal |-> RuleCoefficient] \in cal'.measured
          /\ cal'.action = (IF cal.pf < PFScale THEN "incremented" ELSE "decremented")
      ]_vars

(* In one round a big step was taken from outside the band and a fine step *)
(* from inside it                                                          *)
C18_Witness ==
    /\ pc = "iterate"
    /\ \E a, b \in cal.measured :
          /\ a.pf < PFScale - FineBand
          /\ b.cal = TimesBig(a.cal, big_increment)
    /\ \E a, b \in cal.measured :
          /\ a.pf >= PFScale - FineBand
          /\ a.pf < PFScale - 5
          /\ b.cal = TimesIncrement(a.cal, 0)
          /\ b.cal # TimesBig(a.cal, big_increment)

(* C19: the step sizes change exactly when the trend window holds two     *)
(* negative deltas, and then the gap of each to 1.0 is halved (one more   *)
(* halving of both)                                                       *)
C19_DamperTrigger ==
    [][ (cal # None /\ cal' # None) =>
          IF WorseningStep
          THEN cal'.increment = cal.increment + 1 /\ cal'.decrement = cal.decrement + 1
          ELSE cal'.increment = cal.increment /\ cal'.decrement = cal.decrement
      ]_vars

(* The damper has fired, and since then a window with one negative delta *)
(* has left the steps alone                                              *)
C19_Witness ==
    /\ pc = "iterate"
    /\ cal.increment = 1
    /\ cal.decrement = 1
    /\ cal.trends = <<>>
    /\ \E a, b, c \in cal.measured : a.pf > b.pf /\ b.pf > c.pf /\ a.cal < b.cal /\ b.cal < c.cal

-----------------------------------------------------------------------------
(* Properties of the orientation check *)

(* C20, as stated: the first orientation check and the re-check after *)
(* reversal both compute the power factor at coefficient 1.0          *)
C20_OrientationAtOne ==
    \A k \in 1..Len(phase.checks) : phase.checks[k] = CScale

(* C20, as the code has it: the first check uses the channel's configured *)
(* coefficient, the re-check after reversal uses 1.0                      *)
C20_OrientationCoefficients ==
    /\ Len(phase.checks) >= 1 => phase.checks[1] = ct_phase_correction[ct_selection]
    /\ Len(phase.checks) >= 2 => phase.checks[2] = CScale

(* Both checks were made, with different coefficients *)
C20_Witness ==
    /\ Len(phase.checks) = 2
    /\ phase.checks[1] # phase.checks[2]

-----------------------------------------------------------------------------
(* Properties of the success branch and of the trend window *)

(* C21, as stated: when the initial power factor already rounds to 1.0000 *)
(* the success branch does not read a coefficient that was never computed *)
(* and find_phasecal goes on to return its three round results            *)
C21_InitialSuccessDefined ==
    (cal # None /\ ~cal.assigned /\ RoundsToOne) =>
        /\ pc \in {"round", "iterate", "round_end", "recommended"}
        /\ ~Said("UnboundLocalError")

(* C22, as stated: when a round ends by the success test, the coefficient *)
(* recorded for the round is the one applied to the batch whose power     *)
(* factor rounded to 1.0 (previous_phasecal, set from it on line 846)     *)
C22_SuccessCoefficient ==
    pc = "round_end" => cal.best_pf.cal = cal.previous_phasecal

(* C26: the trend window holds at most 2 deltas and is empty again before *)
(* the next iteration whenever it reached 2: a stepping iteration appends *)
(* one delta to a window of 0 and empties a window of 1 (worsening or     *)
(* not), and nothing else changes the window, round boundaries included   *)
C26_TrendWindow ==
    [][ (cal # None /\ cal' # None) =>
          /\ Len(cal.trends) <= 1
          /\ Len(cal'.trends) <= 1
          /\ cal'.trends =
                IF SteppingStep
                THEN IF Len(cal.trends) = 1 THEN <<>>
                     ELSE <<cal'.pf - cal.previous_pf>>
                ELSE cal.trends
      ]_vars

(* A second round starts with one delta in the window, after the window *)
(* was filled and emptied in the first                                   *)
C26_Witness ==
    /\ pc = "iterate"
    /\ cal.i = 2
    /\ cal.j = 0
    /\ Len(cal.trends) = 1
    /\ cal.acq >= 2

-----------------------------------------------------------------------------
(* Further properties of the calculator and the reconstructors *)

(* |real power| <= apparent power for one reading, on the squares: the *)
(* covariance term squared against the product of the variance terms   *)
WithinUnity(r) ==
    /\ r.power.num * r.power.num <= r.current.num * r.voltage.num
    /\ r.pf.num * r.pf.num <= r.pf.den2

(* C27: for integer current and voltage sequences of equal length N > 0 the *)
(* computed power factor has magnitude at most 1                            *)
C27_PowerFactorAtMostOne ==
    pc = "done" =>
        /\ check_results.status = "ok" => WithinUnity(check_results.reading)
        /\ results.status = "ok" =>
              \A ch \in Channels : WithinUnity(results.reading[ch])

(* A reading with nonzero apparent power whose power factor is exactly 1 *)
(* or -1, and one where it is strictly inside                            *)
C27_Witness ==
    /\ pc = "done"
    /\ check_results.status = "ok"
    /\ results.status = "ok"
    /\ check_results.reading.pf.num # 0
    /\ check_results.reading.pf.num * check_results.reading.pf.num
          = check_results.reading.pf.den2
    /\ \E ch \in Channels :
          /\ results.reading[ch].pf.num # 0
          /\ results.reading[ch].pf.num * results.reading[ch].pf.num
                < results.reading[ch].pf.den2

(* C28: each v_ctk of rebuild_waves is the new_v of rebuild_wave called with *)
(* coefficient c_k on the same voltage samples; rebuild_waves hands back the *)
(* six current sequences and the source voltage unchanged; both raise on an  *)
(* empty voltage sequence                                                    *)
C28_ReconstructorsAgree ==
    pc = "done" =>
        /\ rebuilt_waves.status = rebuilt_wave.status
        /\ rebuilt_waves.status = "ok" =>
              /\ rebuilt_waves.v[ct_selection] = rebuilt_wave.new_v
              /\ \A ch \in Channels :
                    /\ rebuilt_waves.v[ch]
                          = rebuild_wave(samples[ch], samples["voltage"],
                                         ct_phase_correction[ch]).new_v
                    /\ rebuilt_waves.ct[ch] = samples[ch]
              /\ rebuilt_waves.voltage = samples["voltage"]

(* Both reconstructors ran on a batch where the coefficients differ between *)
(* channels and give different waves                                        *)
C28_Witness ==
    /\ pc = "done"
    /\ rebuilt_waves.status = "ok"
    /\ Len(samples["voltage"]) >= 2
    /\ rebuilt_waves.v["ct1"] # rebuilt_waves.v["ct2"]
    /\ rebuilt_waves.v["ct2"] # rebuilt_waves.v["ct6"]

-----------------------------------------------------------------------------
(* get_board_voltage *)

(* line 78: the number the length of samples is compared with *)
BOARD_READINGS == 10

(* 10-bit codes of the board-voltage channel, around half scale *)
BoardCodes == {511, 512}

(* line 78: while len(samples) <= 10 *)
BoardLoopOpen(n) == n <= BOARD_READINGS

(* lines 82-83: (sum(samples) / len(samples) / 1024) * 3.31 * 2, as a fraction *)
BoardVoltage(readings) ==
    [num |-> SumTo(readings, Len(readings)) * 662,
     den |-> Len(readings) * 1024 * 100]

InitBoard ==
    /\ ct_selection = "ct1"
    /\ ct_phase_correction = CT_PHASE_CORRECTION
    /\ samples = None
    /\ rebuilt_wave = None
    /\ check_results = None
    /\ rebuilt_waves = None
    /\ results = None
    /\ pc = "get_board_voltage"
    /\ phase = None
    /\ cal = None
    /\ log = <<>>
    /\ env = None
    /\ board = [samples |-> <<>>, board_voltage |-> None]
    /\ db = None
    /\ loop = None
    /\ sink = <<>>

(* lines 78-80: one more read_adc of the board-voltage channel *)
ReadBoardAdc ==
    /\ pc = "get_board_voltage"
    /\ BoardLoopOpen(Len(board.samples))
    /\ \E data \in BoardCodes :
          board' = [board EXCEPT !.samples = Append(@, data)]
    /\ UNCHANGED <<ct_phase_correction, ct_selection, calcVars, pc, phaseVars,
                   db, loop, sink>>

(* lines 82-84: the loop is over; average, scale and return *)
ReturnBoardVoltage ==
    /\ pc = "get_board_voltage"
    /\ ~BoardLoopOpen(Len(board.samples))
    /\ board' = [board EXCEPT !.board_voltage = BoardVoltage(board.samples)]
    /\ pc' = "board_voltage_returned"
    /\ UNCHANGED <<ct_phase_correction, ct_selection, calcVars, phaseVars,
                   db, loop, sink>>

NextBoard == ReadBoardAdc \/ ReturnBoardVoltage

SpecBoard == InitBoard /\ [][NextBoard]_vars

(* C29, as stated: get_board_voltage takes exactly 10 readings and returns *)
(* the scaled average of those 10                                          *)
C29_TenReadings ==
    pc = "board_voltage_returned" =>
        /\ Len(board.samples) = 10
        /\ board.board_voltage.den = 10 * 1024 * 100
        /\ board.board_voltage.num = SumTo(board.samples, 10) * 662

-----------------------------------------------------------------------------
(* The default mode: connecting to the database, then run_main *)

(* Cycles of the measurement loop that are followed *)
MaxCycles == 7

(* line 960: while x < 5 *)
DB_ATTEMPTS == 5

(* line 594: if i < 2 *)
WINDOW_READINGS == 2

(* Variant: one more connection attempt *)
RetryOpenSix(x) == x < DB_ATTEMPTS + 1

(* line 960 *)
RetryOpen(x) == x < DB_ATTEMPTS

(* Variant: a window of three readings *)
WindowOpenThree(i) == i < WINDOW_READINGS + 1

(* line 594 *)
WindowOpen(i) == i < WINDOW_READINGS

(* The lists run_main appends to (lines 488-497) *)
Series == Channels \cup {"solar_power_values", "home_load_values",
                         "net_power_values", "rms_voltages"}

EmptyWindow == [s \in Series |-> <<>>]

(* What collect_data hands to a cycle: the samples of channel 1 and of the   *)
(* voltage (the other channels follow the voltage), or an error of the bus.  *)
(* An empty voltage list fails in rebuild_waves, a short current list in     *)
(* calculate_power.                                                          *)
MainBatches ==
    { [status |-> "ok", a |-> <<0, 1>>, v |-> <<0, 1>>],
      [status |-> "ok", a |-> <<1, 0, 1>>, v |-> <<0, 1, 1>>],
      [status |-> "ok", a |-> <<0, 1>>, v |-> <<>>],
      [status |-> "ok", a |-> <<1>>, v |-> <<0, 1>>],
      [status |-> "IOError", a |-> <<>>, v |-> <<>>] }

RECURSIVE SumPower(_, _)
SumPower(reading, chs) ==
    IF chs = {} THEN 0
    ELSE LET ch == CHOOSE c \in chs : TRUE
         IN reading[ch].power.num + SumPower(reading, chs \ {ch})

(* lines 535-586 and 595-622: the value a cycle appends to a list.  Each   *)
(* entry carries poll_time, the number of the cycle that computed it       *)
(* (history: the lists of the code hold the values only).                  *)
SeriesValue(res, s) ==
    IF s \in Channels THEN res.reading[s].power.num
    ELSE IF s = "solar_power_values" THEN 0
    ELSE IF s = "rms_voltages" THEN res.reading["ct1"].voltage.num
    ELSE SumPower(res.reading, Channels)

(* lines 595-623: the reading joins the window *)
AppendReading(l, res, poll_time) ==
    [l EXCEPT !.window = [s \in Series |->
                            Append(l.window[s],
                                   [poll_time |-> poll_time,
                                    value |-> SeriesValue(res, s)])],
              !.i = @ + 1,
              !.n = poll_time]

(* Variant: the reading of the writing cycle opens the next window *)
AfterWriteKeepsReading(l, res, poll_time) ==
    [l EXCEPT !.window = [s \in Series |->
                            <<[poll_time |-> poll_time,
                               value |-> SeriesValue(res, s)]>>],
              !.i = 1,
              !.n = poll_time]

(* lines 640-650: the lists and the counter after write_to_influx *)
AfterWrite(l, res, poll_time) ==
    [l EXCEPT !.window = EmptyWindow, !.i = 0, !.n = poll_time]

(* Variant: a failed batch is swallowed and averaged in as a zero reading *)
OnFailureAppendsZero(l, poll_time) ==
    [l EXCEPT !.window = [s \in Series |->
                            Append(l.window[s], [poll_time |-> poll_time, value |-> 0])],
              !.n = poll_time,
              !.aborted = poll_time]

(* lines 501-522 and 657: an exception other than KeyboardInterrupt leaves *)
(* run_main; nothing of the batch has been appended                        *)
OnFailure(l, poll_time) == [l EXCEPT !.n = poll_time, !.aborted = poll_time]

InitMain ==
    /\ ct_selection = "ct1"
    /\ ct_phase_correction = CT_PHASE_CORRECTION
    /\ samples = None
    /\ rebuilt_wave = None
    /\ check_results = None
    /\ rebuilt_waves = None
    /\ results = None
    /\ pc = "connect"
    /\ phase = None
    /\ cal = None
    /\ log = <<>>
    /\ env = None
    /\ board = None
    /\ db = [x |-> 0, connection_established |-> FALSE, calls |-> 0]
    /\ loop = None
    /\ sink = <<>>

(* lines 960-966 and 979-980: one call of init_db; on success the loop is *)
(* left and run_main starts with empty lists (lines 488-498)              *)
InitDb ==
    /\ pc = "connect"
    /\ RetryOpen(db.x)
    /\ \E connected \in BOOLEAN :
          IF connected
          THEN /\ db' = [db EXCEPT !.connection_established = TRUE, !.calls = @ + 1]
               /\ loop' = [i |-> 0, window |-> EmptyWindow, n |-> 0, aborted |-> 0]
               /\ pc' = "run_main"
          ELSE /\ db' = [db EXCEPT !.x = @ + 1, !.calls = @ + 1]
               /\ UNCHANGED <<loop, pc>>
    /\ UNCHANGED <<ct_phase_correction, ct_selection, calcVars, phaseVars, board, sink>>

(* lines 968-978: no connection after the last attempt: message, sys.exit() *)
ConnectFailed ==
    /\ pc = "connect"
    /\ ~RetryOpen(db.x)
    /\ log' = Append(log, "could_not_connect")
    /\ pc' = "exited"
    /\ UNCHANGED <<ct_phase_correction, ct_selection, calcVars, phase, cal, env,
                   mainVars>>

(* lines 500-650: one pass of the while loop of run_main *)
MainCycle ==
    /\ pc = "run_main"
    /\ loop.n < MaxCycles
    /\ \E b \in MainBatches :
          LET poll_time == loop.n + 1
              smp == Batch(b.a, b.v, "ct1")
              rw == rebuild_waves(smp, ct_phase_correction)
              res == IF rw.status = "ok" THEN calculate_power(rw.ct, rw.v) ELSE rw
          IN IF b.status # "ok"
             THEN /\ loop' = OnFailure(loop, poll_time)
                  /\ log' = Append(log, b.status)
                  /\ pc' = "crashed"
                  /\ UNCHANGED <<samples, rebuilt_waves, results, sink>>
             ELSE IF res.status # "ok"
             THEN /\ loop' = OnFailure(loop, poll_time)
                  /\ log' = Append(log, res.status)
                  /\ pc' = "crashed"
                  /\ samples' = smp
                  /\ rebuilt_waves' = rw
                  /\ UNCHANGED <<results, sink>>
             ELSE /\ samples' = smp
                  /\ rebuilt_waves' = rw
                  /\ results' = res
                  /\ IF WindowOpen(loop.i)
                     THEN /\ loop' = AppendReading(loop, res, poll_time)
                          /\ UNCHANGED sink
                     ELSE /\ sink' = Append(sink, [window |-> loop.window,
                                                   i |-> loop.i,
                                                   poll_time |-> poll_time])
                          /\ loop' = AfterWrite(loop, res, poll_time)
                  /\ UNCHANGED <<log, pc>>
    /\ UNCHANGED <<ct_phase_correction, ct_selection, rebuilt_wave, check_results,
                   phase, cal, env, board, db>>

(* lines 657-659: Ctrl-c closes the database and exits *)
KeyboardInterrupt ==
    /\ pc = "run_main"
    /\ log' = Append(log, "close_db")
    /\ pc' = "exited"
    /\ UNCHANGED <<ct_phase_correction, ct_selection, calcVars, phase, cal, env,
                   mainVars>>

NextMain == InitDb \/ ConnectFailed \/ MainCycle \/ KeyboardInterrupt

SpecMain == InitMain /\ [][NextMain]_vars

(* The monitor in any of its modes: the reconstructors and calculators on *)
(* one batch, the phase mode, or the default mode with run_main           *)
InitMonitor == Init \/ InitPhase \/ InitMain
NextMonitor == Next \/ NextPhase \/ NextMain
SpecMonitor == InitMonitor /\ [][NextMonitor]_vars

-----------------------------------------------------------------------------
(* Properties of the default mode and of the measurement loop *)

(* The poll times of the entries of one list *)
PollTimes(entries) == [k \in 1..Len(entries) |-> entries[k].poll_time]

(* Every list of the window holds exactly n readings *)
Holds(window, n) == \A s \in Series : Len(window[s]) = n

(* C23: the counter i always equals the number of readings held in every *)
(* list and stays in 0..2; every write hands over exactly 2 readings per *)
(* list, happens only when i = 2, and leaves the lists empty and i = 0   *)
C23_WindowOfTwo ==
    [][ (loop # None /\ loop' # None) =>
          /\ loop.i \in 0..2 /\ Holds(loop.window, loop.i)
          /\ loop'.i \in 0..2 /\ Holds(loop'.window, loop'.i)
          /\ \A k \in 1..Len(sink') : sink'[k].i = 2 /\ Holds(sink'[k].window, 2)
          /\ sink' # sink =>
                /\ loop.i = 2
                /\ sink' = Append(sink, sink'[Len(sink')])
                /\ sink'[Len(sink')].window = loop.window
                /\ loop'.i = 0
                /\ Holds(loop'.window, 0)
      ]_vars

(* Two writes were made and a new window has been started *)
C23_Witness ==
    /\ pc = "run_main"
    /\ Len(sink) = 2
    /\ loop.i = 1

(* C24: the k-th write holds the readings of cycles 3k-2 and 3k-1; the   *)
(* reading of cycle 3k, computed in the cycle that writes, is in no write *)
(* and in no window                                                       *)
C24_EveryThirdDiscarded ==
    loop # None =>
        /\ \A k \in 1..Len(sink) : \A s \in Series :
              PollTimes(sink[k].window[s]) = <<3 * k - 2, 3 * k - 1>>
        /\ \A s \in Series : \A k \in 1..Len(loop.window[s]) :
              loop.window[s][k].poll_time = 3 * Len(sink) + k
        /\ pc = "run_main" => loop.n = 3 * Len(sink) + loop.i

(* Six readings were computed in a row and two writes made *)
C24_Witness ==
    /\ pc = "run_main"
    /\ loop.n = 6
    /\ loop.aborted = 0
    /\ Len(sink) = 2
    /\ loop.i = 0

(* The poll time t appears in some list of the window or of a write *)
Averaged(t) ==
    \/ \E s \in Series : \E k \in 1..Len(loop.window[s]) :
          loop.window[s][k].poll_time = t
    \/ \E w \in 1..Len(sink) : \E s \in Series : \E k \in 1..Len(sink[w].window[s]) :
          sink[w].window[s][k].poll_time = t

(* C25: a batch whose acquisition, reconstruction or power calculation     *)
(* fails appends nothing to the window, causes no write, and is in no later *)
(* write: the failure ends the loop                                         *)
C25_AbortedNotAveraged ==
    [][ /\ pc # "crashed"
        /\ (pc = "run_main" /\ pc' = "crashed") =>
              /\ loop'.aborted = loop.n + 1
              /\ loop'.window = loop.window
              /\ loop'.i = loop.i
              /\ sink' = sink
        /\ ((loop # None /\ loop.aborted # 0)
               => (pc = "crashed" /\ ~Averaged(loop.aborted)))'
      ]_vars

(* A batch failed after a write, with one reading waiting in the window *)
C25_Witness ==
    /\ pc = "crashed"
    /\ loop.aborted = 5
    /\ loop.i = 1
    /\ Len(sink) = 1

(* C30: init_db is called at most 5 times; the first success stops the    *)
(* retries and starts run_main; run_main runs only with a connection; and *)
(* after 5 failures the process exits with no batch acquired              *)
C30_ConnectBeforeLoop ==
    db # None =>
        /\ db.calls <= 5
        /\ db.calls = (IF db.connection_established THEN db.x + 1 ELSE db.x)
        /\ (loop # None \/ samples # None \/ sink # <<>>) => db.connection_established
        /\ (db.connection_established /\ pc = "connect") => FALSE
        /\ (pc = "exited" /\ ~db.connection_established) =>
              /\ db.calls = 5
              /\ loop = None
              /\ samples = None
              /\ Said("could_not_connect")
        /\ (pc = "connect" /\ db.calls = 5) => ~ENABLED InitDb

(* The fifth attempt connected and the loop has acquired a batch *)
C30_Witness ==
    /\ pc = "run_main"
    /\ db.calls = 5
    /\ db.connection_established
    /\ samples # None

====
